---- MODULE Spec2Model ----
(***************************************************************************)
(* A model of src/ai_fyp.py, a Streamlit script.  Streamlit re-runs the    *)
(* whole script on every interaction, so every action below is one run of  *)
(* the script body: the upload widget hands over the current file, the     *)
(* dispatch of lines 76-106 re-reads it, and at most one button is "on".   *)
(* Whatever was drawn by the previous run is replaced by what this run     *)
(* draws.                                                                  *)
(*                                                                         *)
(* A file name is the sequence of its dot-separated pieces, which is what  *)
(* name.split('.') returns: "txt.CSV" is <<"txt", "CSV">>.  A text is      *)
(* its length in characters; None is the length -1 (None and "" are both   *)
(* falsy, as in Python).  A table is the sequence of its columns' kinds;   *)
(* a column is named by its position, and 0 is the selection None.         *)
(***************************************************************************)
EXTENDS Integers, Sequences, FiniteSets, TLC

\* ------------------------------------------------------------- bounds
MaxSegments == 2    \* pieces of a file name
MaxCols == 2        \* columns of a table
MaxPages == 2       \* pages of a PDF
MaxTmpFiles == 2    \* temporary files left on disk before the model stops counting

\* ---------------------------------------------------------- constants
DISPLAY_CAP == 5000     \* pdf_text[:5000]
PROMPT_CAP == 15000     \* pdf_text[:15000]

Min(a, b) == IF a < b THEN a ELSE b

\* -------------------------------------------------------------- inputs
Segments == {"csv", "CSV", "xlsx", "pdf", "txt"}

\* str.lower() on the pieces above
Lower(s) ==
    CASE s = "CSV" -> "csv"
      [] OTHER -> s

FileNames == UNION {[1..n -> Segments] : n \in 1..MaxSegments}

\* The names of the runs that vary the content.
TableFileNames == {<<"txt", "csv">>, <<"txt", "xlsx">>}
PdfFileNames == {<<"txt", "pdf">>}

\* dtypes: select_dtypes takes "number" for numeric_cols, "object" and "category" for cat_cols
Kinds == {"number", "object", "category", "datetime"}
ColumnLists == UNION {[1..n -> Kinds] : n \in 0..MaxCols}

\* Lengths of the text one page yields; 0 is a page without text.
PageLens == {0, 1, DISPLAY_CAP - 1, DISPLAY_CAP, PROMPT_CAP}
PageLists == UNION {[1..n -> PageLens] : n \in 0..MaxPages}

\* What the bytes of a file are, whatever its name says.
NoContent == [fmt |-> "none", ok |-> FALSE, cols |-> <<>>, pages |-> <<>>]
TableContents ==
    {[fmt |-> f, ok |-> TRUE, cols |-> c, pages |-> <<>>] :
        f \in {"csv", "xlsx"}, c \in ColumnLists}
PdfContents ==
    {[fmt |-> "pdf", ok |-> TRUE, cols |-> <<>>, pages |-> p] : p \in PageLists}
CorruptContents ==
    {[fmt |-> f, ok |-> FALSE, cols |-> <<>>, pages |-> <<>>] :
        f \in {"csv", "xlsx", "pdf"}}
Contents == TableContents \cup PdfContents \cup CorruptContents

\* A few contents, for the runs that vary the file name.
SampleContents ==
    {[fmt |-> "csv", ok |-> TRUE, cols |-> <<"number", "object">>, pages |-> <<>>],
     [fmt |-> "pdf", ok |-> TRUE, cols |-> <<>>, pages |-> <<1>>]}

\* -------------------------------------------------------------- values
NoFile == [name |-> <<>>, content |-> NoContent]
NoFrame == [loaded |-> FALSE, cols |-> <<>>]
NoText == 0 - 1
NoDisplay == [body |-> 0, ellipsis |-> FALSE]
NoCall == [called |-> FALSE, intent |-> "none", provider |-> "none",
           isNone |-> TRUE, text |-> "", raised |-> FALSE]
NoChart == [calls |-> <<>>, displayed |-> FALSE]

VARIABLES
    uploaded_file,  \* the upload widget's file, NoFile before the first upload
    data_frame,     \* data_frame of the last run
    pdf_text,       \* pdf_text of the last run
    screen,         \* the elements the last run drew
    expander,       \* the text in the "Extracted PDF Content" expander
    prompt,         \* the prompt the last run composed, as its sections in order
    llm,            \* the call_llama2 call of the last run
    chart,          \* the plotly express calls of the last run and whether a chart is shown
    tmpFiles,       \* temporary report files on disk
    op              \* the interaction that caused the last run

vars == <<uploaded_file, data_frame, pdf_text, screen, expander, prompt, llm,
          chart, tmpFiles, op>>

\* ------------------------------------------------------- upload widget
AllowedTypes == {"csv", "xlsx", "pdf"}

\* An upload widget without its type list.
UploaderAcceptsAnything(name) == Len(name) >= 1

\* st.file_uploader(type=[...]) takes a file only when its name ends, whatever
\* the case, in a dot and one of the allowed types.
UploaderAccepts(name) ==
    /\ Len(name) >= 2
    /\ Lower(name[Len(name)]) \in AllowedTypes

\* The extension without .lower()
file_extension_as_typed(name) == name[Len(name)]

\* uploaded_file.name.split('.')[-1].lower()
file_extension(name) == Lower(name[Len(name)])

\* ------------------------------------------------------------- parsers
\* pd.read_csv raises on bytes that are no CSV and on a file without columns.
read_csv(content) ==
    IF content.fmt = "csv" /\ content.ok /\ Len(content.cols) >= 1
    THEN [raised |-> FALSE, frame |-> [loaded |-> TRUE, cols |-> content.cols]]
    ELSE [raised |-> TRUE, frame |-> NoFrame]

\* pd.read_excel raises on bytes that are no workbook; an empty sheet is an empty frame.
read_excel(content) ==
    IF content.fmt = "xlsx" /\ content.ok
    THEN [raised |-> FALSE, frame |-> [loaded |-> TRUE, cols |-> content.cols]]
    ELSE [raised |-> TRUE, frame |-> NoFrame]

\* The pages that yield text: (... for page in pdf.pages if page.extract_text())
TextPages(pages) == SelectSeq(pages, LAMBDA t : t > 0)

RECURSIVE SumLen(_)
SumLen(texts) == IF texts = <<>> THEN 0 ELSE Head(texts) + SumLen(Tail(texts))

\* len("\n".join(texts)): one newline between two neighbours
JoinLen(texts) ==
    IF texts = <<>> THEN 0 ELSE SumLen(texts) + (Len(texts) - 1)

\* read_pdf: the joined text, or an error message and None when pdfplumber raises.
read_pdf(content) ==
    IF content.fmt = "pdf" /\ content.ok
    THEN [text |-> JoinLen(TextPages(content.pages)), errors |-> {}]
    ELSE [text |-> NoText, errors |-> {"PDF reading error"}]

Truthy(text) == text > 0

\* pdf_text[:5000] + ("..." if len(pdf_text) > 5000 else "")
DisplayText(text) ==
    [body |-> Min(text, DISPLAY_CAP), ellipsis |-> text > DISPLAY_CAP]

\* ------------------------------------------------------------ dispatch
\* Lines 76-106: the branch the extension selects and what it leaves behind.
\* An exception of a parser is caught at line 104: st.error, then st.stop().
Dispatch(file) ==
    LET ext == file_extension(file.name)
        csv == read_csv(file.content)
        xls == read_excel(file.content)
        pdf == read_pdf(file.content)
    IN  IF ext = "csv" THEN
            [selected |-> "read_csv", frame |-> csv.frame, text |-> NoText,
             errors |-> IF csv.raised THEN {"Error processing file"} ELSE {}]
        ELSE IF ext = "xlsx" THEN
            [selected |-> "read_excel", frame |-> xls.frame, text |-> NoText,
             errors |-> IF xls.raised THEN {"Error processing file"} ELSE {}]
        ELSE IF ext = "pdf" THEN
            [selected |-> "read_pdf", frame |-> NoFrame, text |-> pdf.text,
             errors |-> pdf.errors]
        ELSE
            [selected |-> "none", frame |-> NoFrame, text |-> NoText, errors |-> {}]

\* What every run draws for a PDF with text (lines 87-91).
PdfSection(text) ==
    IF Truthy(text) THEN {"pdf_expander", "analyze_button"} ELSE {}

\* What every run draws for a data frame (lines 109-192, 223).
TableSection(frame) ==
    IF frame.loaded
    THEN {"success", "preview", "profile_button", "vis_controls", "vis_button",
          "summary_button", "question_area"}
    ELSE {}

\* The upload widget keeps the refusal it shows until a file is taken.
Kept(drawn) == drawn \cap {"uploader_error"}

BaseScreen(d) == d.errors \cup PdfSection(d.text) \cup TableSection(d.frame)

Expander(text) == IF Truthy(text) THEN DisplayText(text) ELSE NoDisplay

\* ------------------------------------------------------------- prompts
\* A section of an f-string: its text when it is the user's, the length of the
\* document text or the number of columns it embeds, and whether it says it was cut.
Section(name, text, len, marker) ==
    [sec |-> name, text |-> text, len |-> len, marker |-> marker]

\* analysis_prompt (lines 93-98): the numbered request, then the document text.
AnalysisPrompt(text) ==
    <<Section("request", "", 0, FALSE),
      Section("document", "", Min(text, PROMPT_CAP), FALSE)>>

\* eda_prompt (lines 197-213)
EdaPrompt(frame) ==
    <<Section("intro", "", 0, FALSE),
      Section("overview", "", Len(frame.cols), FALSE),
      Section("request", "", 0, FALSE),
      Section("style", "", 0, FALSE)>>

\* qa_prompt with the dataset context ahead of the question.
QaPromptContextFirst(frame, question) ==
    <<Section("intro", "", 0, FALSE),
      Section("context", "", Len(frame.cols), FALSE),
      Section("question", question, 0, FALSE),
      Section("request", "", 0, FALSE),
      Section("cannot_answer", "", 0, FALSE)>>

\* qa_prompt (lines 234-250)
QaPrompt(frame, question) ==
    <<Section("intro", "", 0, FALSE),
      Section("question", question, 0, FALSE),
      Section("context", "", Len(frame.cols), FALSE),
      Section("request", "", 0, FALSE),
      Section("cannot_answer", "", 0, FALSE)>>

\* The position of a section in a prompt, 0 when it has none.
Pos(p, name) ==
    IF \E i \in DOMAIN p : p[i].sec = name
    THEN CHOOSE i \in DOMAIN p : p[i].sec = name
    ELSE 0

\* ----------------------------------------------------------------- LLM
\* What client.chat.completions.create does with a prompt.
Providers == {"raise", "no_choices_attr", "empty_choices", "malformed_choice",
              "content_text", "content_empty", "content_none"}

\* call_llama2 without its try block: an exception of the client leaves the function.
call_llama2_unguarded(intent, provider) ==
    IF provider \in {"raise", "malformed_choice"} THEN
        [called |-> TRUE, intent |-> intent, provider |-> provider,
         isNone |-> TRUE, text |-> "", raised |-> TRUE, errors |-> {}]
    ELSE IF provider \in {"no_choices_attr", "empty_choices"} THEN
        [called |-> TRUE, intent |-> intent, provider |-> provider,
         isNone |-> FALSE, text |-> "No response from AI.", raised |-> FALSE,
         errors |-> {}]
    ELSE
        [called |-> TRUE, intent |-> intent, provider |-> provider,
         isNone |-> provider = "content_none",
         text |-> IF provider = "content_text" THEN "completion" ELSE "",
         raised |-> FALSE, errors |-> {}]

\* call_llama2 (lines 39-58)
call_llama2(intent, provider) ==
    IF provider \in {"raise", "malformed_choice"} THEN
        [called |-> TRUE, intent |-> intent, provider |-> provider,
         isNone |-> TRUE, text |-> "", raised |-> FALSE,
         errors |-> {"AI API Error"}]
    ELSE IF provider \in {"no_choices_attr", "empty_choices"} THEN
        [called |-> TRUE, intent |-> intent, provider |-> provider,
         isNone |-> FALSE, text |-> "No response from AI.", raised |-> FALSE,
         errors |-> {}]
    ELSE
        [called |-> TRUE, intent |-> intent, provider |-> provider,
         isNone |-> provider = "content_none",
         text |-> IF provider = "content_text" THEN "completion" ELSE "",
         raised |-> FALSE, errors |-> {}]

Answered(r) == ~r.isNone /\ r.text # ""

CallRecord(r) ==
    [called |-> r.called, intent |-> r.intent, provider |-> r.provider,
     isNone |-> r.isNone, text |-> r.text, raised |-> r.raised]

\* ------------------------------------------------------ visualization
PlotTypes == {"Histogram", "Box Plot", "Scatter Plot", "Bar Chart", "Line Chart"}

Columns(frame) == 1..Len(frame.cols)
numeric_cols(frame) == {c \in Columns(frame) : frame.cols[c] = "number"}
cat_cols(frame) == {c \in Columns(frame) : frame.cols[c] \in {"object", "category"}}

\* The options of the four select boxes (lines 158-163); a box without options yields None.
XOptions(frame) == IF Columns(frame) = {} THEN {0} ELSE Columns(frame)
YOptions(frame) == IF numeric_cols(frame) = {} THEN {0} ELSE numeric_cols(frame)
\* "Color by" offering every column.
ColorOptionsAnyColumn(frame) == {0} \cup Columns(frame)
ColorOptions(frame) == {0} \cup cat_cols(frame)
FacetOptions(frame) == {0} \cup cat_cols(frame)

PxCall(fn, x, y, color, facet) ==
    [fn |-> fn, x |-> x, y |-> y, color |-> color, facet |-> facet]

\* The handler without its two `and y_axis` tests.
FigureWithoutYTest(plot_type, x, y, color, facet) ==
    IF plot_type = "Histogram" THEN <<PxCall("histogram", x, 0, color, facet)>>
    ELSE IF plot_type = "Box Plot" THEN <<PxCall("box", x, y, color, 0)>>
    ELSE IF plot_type = "Scatter Plot" THEN <<PxCall("scatter", x, y, color, 0)>>
    ELSE IF plot_type = "Bar Chart" THEN <<PxCall("bar", x, y, color, 0)>>
    ELSE <<PxCall("line", x, y, color, 0)>>

\* Lines 167-177: the plotly express calls the selections lead to, none when fig stays None.
Figure(plot_type, x, y, color, facet) ==
    IF plot_type = "Histogram" THEN <<PxCall("histogram", x, 0, color, facet)>>
    ELSE IF plot_type = "Box Plot" THEN <<PxCall("box", x, y, color, 0)>>
    ELSE IF plot_type = "Scatter Plot" /\ y # 0 THEN <<PxCall("scatter", x, y, color, 0)>>
    ELSE IF plot_type = "Bar Chart" THEN <<PxCall("bar", x, y, color, 0)>>
    ELSE IF plot_type = "Line Chart" /\ y # 0 THEN <<PxCall("line", x, y, color, 0)>>
    ELSE <<>>

\* Lines 179-184: what the handler draws; engineOk is whether plotly express returned.
VisDrawn(calls, engineOk) ==
    IF calls = <<>> THEN {"vis_warning"}
    ELSE IF engineOk THEN {"chart"}
    ELSE {"Visualization error"}

\* ------------------------------------------------------------ profiling
\* The steps of lines 125-141, in order; "none" is a run in which no step raises.
ProfileSteps == <<"ProfileReport", "NamedTemporaryFile", "to_file", "read",
                  "html", "download", "unlink">>
ProfileFailures == {ProfileSteps[i] : i \in DOMAIN ProfileSteps} \cup {"none"}

StepIndex(step) ==
    IF step = "none" THEN Len(ProfileSteps) + 1
    ELSE CHOOSE i \in DOMAIN ProfileSteps : ProfileSteps[i] = step

\* A step is done when the run got past it.
Done(step, failAt) == StepIndex(step) < StepIndex(failAt)

\* Lines 124-143: the file exists once NamedTemporaryFile(delete=False) returned, and
\* only os.unlink at the end of the try block removes it.
ProfileRun(failAt) ==
    [created |-> Done("NamedTemporaryFile", failAt),
     deleted |-> Done("unlink", failAt),
     drawn |-> (IF Done("html", failAt) THEN {"profile_report"} ELSE {})
               \cup (IF Done("download", failAt) THEN {"download_button"} ELSE {})
               \cup (IF failAt # "none" THEN {"Profile generation failed"} ELSE {})]

\* ------------------------------------------------------------ questions
Questions == {"", " ", "how many rows?"}

\* The button drawn whatever the text area holds.
QuestionNotTested(question) == TRUE

\* `if user_question and st.button("Get Answer")` (line 224)
QuestionGiven(question) == question # ""

\* ------------------------------------------------------------- actions
Init ==
    /\ uploaded_file = NoFile
    /\ data_frame = NoFrame
    /\ pdf_text = NoText
    /\ screen = {}
    /\ expander = NoDisplay
    /\ prompt = <<>>
    /\ llm = NoCall
    /\ chart = NoChart
    /\ tmpFiles = 0
    /\ op = [name |-> "start"]

\* The run after the upload widget took a file (lines 71-109).
UploadAccepted(names, contents) ==
    \E name \in names, content \in contents :
        LET file == [name |-> name, content |-> content]
            d == Dispatch(file)
        IN  /\ UploaderAccepts(name)
            /\ uploaded_file' = file
            /\ data_frame' = d.frame
            /\ pdf_text' = d.text
            /\ screen' = BaseScreen(d)
            /\ expander' = Expander(d.text)
            /\ prompt' = <<>>
            /\ llm' = NoCall
            /\ chart' = NoChart
            /\ op' = [name |-> "upload", file |-> name, accepted |-> TRUE,
                      selected |-> d.selected]
            /\ UNCHANGED tmpFiles

\* The upload widget refuses a file: it shows why and the script does not see the file.
UploadRejected(names) ==
    \E name \in names :
        /\ ~UploaderAccepts(name)
        /\ screen' = screen \cup {"uploader_error"}
        /\ op' = [name |-> "upload", file |-> name, accepted |-> FALSE,
                  selected |-> "none"]
        /\ UNCHANGED <<uploaded_file, data_frame, pdf_text, expander, prompt, llm,
                       chart, tmpFiles>>

\* "Analyze PDF Content" (lines 91-102), inside the try block of line 80.
AnalyzePDF ==
    \E provider \in Providers :
        LET d == Dispatch(uploaded_file)
            r == call_llama2("DocumentAnalysis", provider)
        IN  /\ "analyze_button" \in screen
            /\ prompt' = AnalysisPrompt(d.text)
            /\ llm' = CallRecord(r)
            /\ screen' = Kept(screen) \cup BaseScreen(d) \cup r.errors
                         \cup (IF r.raised THEN {"Error processing file"} ELSE {})
                         \cup (IF ~r.raised /\ Answered(r)
                               THEN {"document_analysis"} ELSE {})
            /\ data_frame' = d.frame
            /\ pdf_text' = d.text
            /\ expander' = Expander(d.text)
            /\ chart' = NoChart
            /\ op' = [name |-> "analyze"]
            /\ UNCHANGED <<uploaded_file, tmpFiles>>

\* "Generate Full Profile Report" (lines 122-143)
GenerateProfile ==
    \E failAt \in ProfileFailures :
        LET d == Dispatch(uploaded_file)
            r == ProfileRun(failAt)
        IN  /\ "profile_button" \in screen
            /\ tmpFiles < MaxTmpFiles
            /\ tmpFiles' = tmpFiles + (IF r.created /\ ~r.deleted THEN 1 ELSE 0)
            /\ screen' = Kept(screen) \cup BaseScreen(d) \cup r.drawn
            /\ data_frame' = d.frame
            /\ pdf_text' = d.text
            /\ expander' = Expander(d.text)
            /\ prompt' = <<>>
            /\ llm' = NoCall
            /\ chart' = NoChart
            /\ op' = [name |-> "profile", failAt |-> failAt, created |-> r.created,
                      deleted |-> r.deleted, before |-> tmpFiles]
            /\ UNCHANGED uploaded_file

\* "Generate Visualization" (lines 149-184)
GenerateVisualization ==
    /\ "vis_button" \in screen
    /\ \E plot_type \in PlotTypes, engineOk \in BOOLEAN,
          x \in XOptions(Dispatch(uploaded_file).frame),
          y \in YOptions(Dispatch(uploaded_file).frame),
          color \in ColorOptions(Dispatch(uploaded_file).frame),
          facet \in FacetOptions(Dispatch(uploaded_file).frame) :
        LET d == Dispatch(uploaded_file)
            calls == Figure(plot_type, x, y, color, facet)
            drawn == VisDrawn(calls, engineOk)
        IN  /\ chart' = [calls |-> calls, displayed |-> "chart" \in drawn]
            /\ screen' = Kept(screen) \cup BaseScreen(d) \cup drawn
            /\ data_frame' = d.frame
            /\ pdf_text' = d.text
            /\ expander' = Expander(d.text)
            /\ prompt' = <<>>
            /\ llm' = NoCall
            /\ op' = [name |-> "vis", plot_type |-> plot_type, y |-> y,
                      engineOk |-> engineOk]
            /\ UNCHANGED <<uploaded_file, tmpFiles>>

\* "Generate AI Summary" (lines 192-220); nothing around it catches an exception.
GenerateAISummary ==
    \E provider \in Providers :
        LET d == Dispatch(uploaded_file)
            r == call_llama2("EdaSummary", provider)
        IN  /\ "summary_button" \in screen
            /\ prompt' = EdaPrompt(d.frame)
            /\ llm' = CallRecord(r)
            /\ screen' = Kept(screen) \cup BaseScreen(d) \cup r.errors
                         \cup (IF r.raised THEN {"uncaught_exception"}
                               ELSE IF Answered(r) THEN {"eda_summary"}
                               ELSE {"Failed to generate EDA summary"})
            /\ data_frame' = d.frame
            /\ pdf_text' = d.text
            /\ expander' = Expander(d.text)
            /\ chart' = NoChart
            /\ op' = [name |-> "summary"]
            /\ UNCHANGED <<uploaded_file, tmpFiles>>

\* The "Ask Questions" tab (lines 222-257): the text area holds `question` and the
\* user goes for "Get Answer", which is drawn only when the question is not empty.
AskQuestion ==
    \E question \in Questions, provider \in Providers :
        LET d == Dispatch(uploaded_file)
            r == call_llama2("Qa", provider)
            asked == QuestionGiven(question)
        IN  /\ "question_area" \in screen
            /\ prompt' = IF asked THEN QaPrompt(d.frame, question) ELSE <<>>
            /\ llm' = IF asked THEN CallRecord(r) ELSE NoCall
            /\ screen' = Kept(screen) \cup BaseScreen(d)
                         \cup (IF ~asked THEN {}
                               ELSE r.errors \cup
                                    (IF r.raised THEN {"uncaught_exception"}
                                     ELSE IF Answered(r) THEN {"analysis_results"}
                                     ELSE {"Failed to get answer"}))
            /\ data_frame' = d.frame
            /\ pdf_text' = d.text
            /\ expander' = Expander(d.text)
            /\ chart' = NoChart
            /\ op' = [name |-> "ask", question |-> question]
            /\ UNCHANGED <<uploaded_file, tmpFiles>>

\* ------------------------------------------------------ specifications
\* Each specification is the script under one family of inputs.

\* The uploads alone, over every file name.
UploadAny == UploadAccepted(FileNames, SampleContents)
RefuseAny == UploadRejected(FileNames)
NextIngest ==
    \/ UploadAny
    \/ RefuseAny
SpecIngest == Init /\ [][NextIngest]_vars

\* PDF documents of every content.
UploadPdf == UploadAccepted(PdfFileNames, PdfContents \cup CorruptContents)
NextDocument ==
    \/ UploadPdf
    \/ AnalyzePDF
SpecDocument == Init /\ [][NextDocument]_vars

\* Tables of every shape.
UploadTable == UploadAccepted(TableFileNames, TableContents \cup CorruptContents)

\* Workbooks alone: a sheet can have any columns, and none.
UploadSheet ==
    UploadAccepted({<<"txt", "xlsx">>},
                   {c \in TableContents \cup CorruptContents : c.fmt = "xlsx"})

NextVis ==
    \/ UploadSheet
    \/ GenerateVisualization
SpecVis == Init /\ [][NextVis]_vars

NextProfile ==
    \/ UploadTable
    \/ GenerateProfile
SpecProfile == Init /\ [][NextProfile]_vars

\* The three requests that reach the LLM.
NextAI ==
    \/ UploadTable
    \/ UploadPdf
    \/ AnalyzePDF
    \/ GenerateAISummary
    \/ AskQuestion
SpecAI == Init /\ [][NextAI]_vars

\* The whole application.
Next ==
    \/ UploadAccepted(FileNames, Contents)
    \/ UploadRejected(FileNames)
    \/ AnalyzePDF
    \/ GenerateProfile
    \/ GenerateVisualization
    \/ GenerateAISummary
    \/ AskQuestion
Spec == Init /\ [][Next]_vars

\* -------------------------------------------------------------- claims
\* The final extension of a file name, lower case; "" for a name without a dot.
FinalExtension(name) == IF Len(name) < 2 THEN "" ELSE Lower(name[Len(name)])

IsVis == op.name = "vis"
YAbsent == IsVis /\ op.y = 0

\* C1, as claimed: a Scatter or Line request without y ends in the warning with no
\* plotly express call and no chart; a Bar or Histogram request without y ends with
\* exactly one chart built and displayed, and no failure.
C1_AsClaimed ==
    YAbsent =>
        /\ op.plot_type \in {"Scatter Plot", "Line Chart"} =>
              /\ "vis_warning" \in screen
              /\ Len(chart.calls) = 0
              /\ ~chart.displayed
        /\ op.plot_type \in {"Bar Chart", "Histogram"} =>
              /\ Len(chart.calls) = 1
              /\ chart.displayed
              /\ screen \cap {"vis_warning", "Visualization error"} = {}

\* C1, amended: a Scatter or Line request without y ends in the warning with no plotly
\* express call and no chart; a Bar or Histogram request without y makes exactly one
\* plotly express call, without y, and never the warning; its chart is displayed
\* exactly when that call returns, and "Visualization error" is shown when it raises.
C1_VisWithoutY ==
    YAbsent =>
        /\ op.plot_type \in {"Scatter Plot", "Line Chart"} =>
              /\ "vis_warning" \in screen
              /\ Len(chart.calls) = 0
              /\ ~chart.displayed
        /\ op.plot_type \in {"Bar Chart", "Histogram"} =>
              /\ Len(chart.calls) = 1
              /\ chart.calls[1].y = 0
              /\ "vis_warning" \notin screen
              /\ chart.displayed <=> op.engineOk
              /\ "Visualization error" \in screen <=> ~op.engineOk

C1_Witness ==
    /\ YAbsent
    /\ op.plot_type = "Bar Chart"
    /\ chart.displayed

\* C2: a question request with an empty question composes no prompt and calls no LLM,
\* and every Qa call of the LLM comes from a request with a question that is not empty.
C2_NoQuestionNoCall ==
    /\ (op.name = "ask" /\ op.question = "") =>
          /\ ~llm.called
          /\ Len(prompt) = 0
          /\ screen \cap {"analysis_results", "Failed to get answer", "AI API Error"} = {}
    /\ (llm.called /\ llm.intent = "Qa") =>
          /\ op.name = "ask"
          /\ op.question # ""

C2_Witness ==
    /\ op.name = "ask"
    /\ op.question = ""
    /\ "question_area" \in screen

ErrorMessages == {"Error processing file", "PDF reading error", "uploader_error"}

\* C3: an uploaded PDF none of whose pages yields text ends with an error shown and
\* without the "Analyze PDF Content" button.
C3_EmptyPdfIsAnError ==
    (/\ op.name = "upload"
     /\ op.selected = "read_pdf"
     /\ uploaded_file.content.fmt = "pdf"
     /\ uploaded_file.content.ok
     /\ Len(uploaded_file.content.pages) >= 1
     /\ \A i \in DOMAIN uploaded_file.content.pages : uploaded_file.content.pages[i] = 0)
    => /\ screen \cap ErrorMessages # {}
       /\ "analyze_button" \notin screen

ParserOf(ext) ==
    CASE ext = "csv" -> "read_csv"
      [] ext = "xlsx" -> "read_excel"
      [] ext = "pdf" -> "read_pdf"
      [] OTHER -> "none"

\* C4: the parser an upload selects is decided by the final extension of the file
\* name, lower case: csv, xlsx and pdf select their parser, anything else none.
C4_FormatByExtension ==
    op.name = "upload" => op.selected = ParserOf(FinalExtension(op.file))

C4_Witness ==
    /\ op.name = "upload"
    /\ op.file = <<"txt", "CSV">>
    /\ op.selected = "read_csv"
    /\ data_frame.loaded

\* C5: an upload whose extension is none of csv, xlsx, pdf shows an error, and nothing
\* of that file is kept or offered: the file is not the widget's file, and what the
\* screen offers, if anything, comes from a file with a supported extension.
C5_UnsupportedHalts ==
    (op.name = "upload" /\ FinalExtension(op.file) \notin {"csv", "xlsx", "pdf"}) =>
        /\ "uploader_error" \in screen
        /\ uploaded_file.name # op.file
        /\ op.selected = "none"
        /\ uploaded_file = NoFile =>
              /\ ~data_frame.loaded
              /\ pdf_text = NoText
              /\ screen = {"uploader_error"}
        /\ uploaded_file # NoFile =>
              FinalExtension(uploaded_file.name) \in {"csv", "xlsx", "pdf"}

C5_Witness ==
    /\ op.name = "upload"
    /\ op.file = <<"csv", "txt">>
    /\ uploaded_file = NoFile
    /\ "uploader_error" \in screen

\* C6: the temporary file of a profile run is gone when the run ends, whether or not
\* a step after its creation failed.
C6_TempFileRemoved ==
    (op.name = "profile" /\ op.created) =>
        /\ op.deleted
        /\ tmpFiles = op.before

\* C7: an exception of the completion service is caught in the call, shown as
\* "AI API Error" and returned as None; a response without choices returns "No
\* response from AI."; otherwise the content is returned; and no exception leaves
\* the call or the request.
C7_LlmOutcomes ==
    llm.called =>
        /\ llm.provider \in {"raise", "malformed_choice"} =>
              /\ "AI API Error" \in screen
              /\ llm.isNone
        /\ llm.provider \in {"no_choices_attr", "empty_choices"} =>
              /\ ~llm.isNone
              /\ llm.text = "No response from AI."
              /\ "AI API Error" \notin screen
        /\ llm.provider = "content_text" =>
              /\ ~llm.isNone
              /\ llm.text = "completion"
              /\ "AI API Error" \notin screen
        /\ ~llm.raised
        /\ screen \cap {"uncaught_exception", "Error processing file"} = {}

C7_Witness ==
    /\ llm.called
    /\ llm.provider = "raise"
    /\ "AI API Error" \in screen
    /\ "Failed to generate EDA summary" \in screen

DocSection == prompt[Pos(prompt, "document")]

\* C8: the document text shown is at most 5000 characters and the text in the
\* analysis prompt at most 15000, and a text that was cut carries a mark of it.
C8_CapsAndFlags ==
    /\ Truthy(pdf_text) =>
          /\ expander.body <= DISPLAY_CAP
          /\ pdf_text > DISPLAY_CAP => expander.ellipsis
    /\ op.name = "analyze" =>
          /\ DocSection.len <= PROMPT_CAP
          /\ pdf_text > PROMPT_CAP => DocSection.marker

IsNumeric(c) == data_frame.cols[c] = "number"
IsCategorical(c) == data_frame.cols[c] \in {"object", "category"}

\* C9: every field of a plotly express call names a column of the table; y, when
\* given, is a numeric column; color and facet, when given, are categorical columns.
C9_ChartFields ==
    \A i \in DOMAIN chart.calls :
        LET c == chart.calls[i] IN
        /\ \A f \in {c.x, c.y, c.color, c.facet} :
              f # 0 => f \in 1..Len(data_frame.cols)
        /\ c.y # 0 => IsNumeric(c.y)
        /\ c.color # 0 => IsCategorical(c.color)
        /\ c.facet # 0 => IsCategorical(c.facet)

C9_Witness ==
    /\ Len(chart.calls) = 1
    /\ chart.calls[1].y # 0
    /\ chart.calls[1].color # 0
    /\ chart.calls[1].x # chart.calls[1].y
    /\ chart.displayed

Ordered(names) ==
    /\ \A i \in DOMAIN names : Pos(prompt, names[i]) > 0
    /\ \A i, j \in DOMAIN names : i < j => Pos(prompt, names[i]) < Pos(prompt, names[j])

\* C10, as claimed: a Qa prompt has the dataset context, then the question, then the
\* request list, then the cannot-answer instruction; a DocumentAnalysis prompt the
\* text, then the request; an EdaSummary prompt the overview, then the request.
C10_AsClaimed ==
    llm.called =>
        /\ llm.intent = "Qa" =>
              Ordered(<<"context", "question", "request", "cannot_answer">>)
        /\ llm.intent = "DocumentAnalysis" => Ordered(<<"document", "request">>)
        /\ llm.intent = "EdaSummary" => Ordered(<<"overview", "request">>)

\* C10, amended: a Qa prompt has the question, then the dataset context, then the
\* request list, then the cannot-answer instruction; a DocumentAnalysis prompt the
\* numbered request, then the text; an EdaSummary prompt the overview, then the request.
C10_SectionOrder ==
    llm.called =>
        /\ llm.intent = "Qa" =>
              /\ Ordered(<<"question", "context", "request", "cannot_answer">>)
              /\ prompt[Pos(prompt, "question")].text = op.question
        /\ llm.intent = "DocumentAnalysis" => Ordered(<<"request", "document">>)
        /\ llm.intent = "EdaSummary" => Ordered(<<"overview", "request">>)

C10_Witness ==
    /\ llm.called
    /\ llm.intent = "Qa"
    /\ Len(prompt) = 5
    /\ op.question = "how many rows?"
    /\ "analysis_results" \in screen

====
